---- MODULE Spec2Model ----
(***************************************************************************)
(* A model of src/src/arbitrage_monitor.py: name normalisation, grouping   *)
(* of quotations by match, two-way arbitrage detection, stake allocation   *)
(* and the polling loop of run().                                          *)
(*                                                                         *)
(* Numbers.  The program computes in binary floating point.  The model     *)
(* computes the same expressions, in the same order, over exact rationals  *)
(* [num, den] kept in lowest terms; round(x, n) is Python's round: to the  *)
(* nearest multiple of 10^-n, an exact half going to the even neighbour.   *)
(* Strings are sequences of one-character strings.                         *)
(***************************************************************************)
EXTENDS Integers, Sequences, FiniteSets, TLC

VARIABLES
    pc,          \* position of the modelled call or of run()'s loop
    arg,         \* the argument(s) of the pure function under check
    ret,         \* its result(s)
    all_events,  \* run(): the quotations fetched in the current cycle
    by_match,    \* run(): group_by_match(all_events), a dict in insertion order
    idx,         \* run(): number of buckets of by_match already iterated
    found,       \* run(): the cycle's counter of reported opportunities
    last,        \* run(): what the last detect / stake_split call produced
    log,         \* the rows appended to the CSV file, oldest first
    log0         \* history: the log as it was when the current cycle began

vars == <<pc, arg, ret, all_events, by_match, idx, found, last, log, log0>>

None == [kind |-> "None"]

\* a bucket run() passed over without calling detect_two_way_arbitrage
Skipped == [kind |-> "skipped"]

-----------------------------------------------------------------------------
(* Bounds of the model *)

\* fetching stops once the log holds this many rows
MaxLog == 2
\* longest list of quotations handed to detect_two_way_arbitrage
MaxBook == 3
\* longest list of quotations handed to group_by_match
MaxEvents == 3
\* raw names are concatenations of at most this many tokens
MaxTokens == 3

-----------------------------------------------------------------------------
(* Exact rational arithmetic standing for the float arithmetic *)

RECURSIVE GCD(_, _)
GCD(a, b) == IF b = 0 THEN a ELSE GCD(b, a % b)

Abs(n) == IF n < 0 THEN -n ELSE n

\* the rational n/d (d > 0) in lowest terms
Rat(n, d) ==
    LET g == GCD(Abs(n), d)
    IN  [num |-> n \div g, den |-> d \div g]

RatInt(n) == [num |-> n, den |-> 1]

RatAdd(a, b) ==
    LET g == GCD(a.den, b.den)
    IN  Rat(a.num * (b.den \div g) + b.num * (a.den \div g), (a.den \div g) * b.den)

RatSub(a, b) == RatAdd(a, [num |-> -b.num, den |-> b.den])

RatMul(a, b) ==
    LET x == Rat(a.num, b.den)
        y == Rat(b.num, a.den)
    IN  [num |-> x.num * y.num, den |-> x.den * y.den]

\* a / b for b # 0
RatDiv(a, b) ==
    IF b.num > 0 THEN RatMul(a, [num |-> b.den, den |-> b.num])
                 ELSE RatMul(a, [num |-> -b.den, den |-> -b.num])

RatLt(a, b) ==
    LET g == GCD(a.den, b.den)
    IN  a.num * (b.den \div g) < b.num * (a.den \div g)

RatLe(a, b) == ~ RatLt(b, a)

\* Python's min(a, b): the first of the smallest
RatMin(a, b) == IF RatLt(b, a) THEN b ELSE a

Pow10(n) == CASE n = 0 -> 1 [] n = 1 -> 10 [] n = 2 -> 100 [] n = 3 -> 1000
              [] n = 4 -> 10000 [] n = 5 -> 100000

\* Python's round(x, ndigits): nearest multiple of 10^-ndigits, half to even
Round(x, ndigits) ==
    LET q  == RatMul(x, RatInt(Pow10(ndigits)))
        n  == q.num
        d  == q.den
        fl == n \div d
        r2 == 2 * (n - fl * d)
        k  == IF r2 < d THEN fl
              ELSE IF r2 > d THEN fl + 1
              ELSE IF fl % 2 = 0 THEN fl ELSE fl + 1
    IN  Rat(k, Pow10(ndigits))

-----------------------------------------------------------------------------
(* Strings as sequences of characters *)

Upper == <<"A","B","C","D","E","F","G","H","I","J","K","L","M",
           "N","O","P","Q","R","S","T","U","V","W","X","Y","Z">>

LowerCase == <<"a","b","c","d","e","f","g","h","i","j","k","l","m",
               "n","o","p","q","r","s","t","u","v","w","x","y","z">>

Digits == <<"0","1","2","3","4","5","6","7","8","9">>

\* the characters in code-point order, as sorted() compares them
CodeOrder == <<" ", ",", ".">> \o Digits \o Upper \o LowerCase

IndexOf(seq, c) == CHOOSE i \in 1..Len(seq) : seq[i] = c

Ord(c) == IndexOf(CodeOrder, c)

IsSpace(c) == c = " "

\* str.lower() on one character
LowerChar(c) ==
    IF \E i \in 1..Len(Upper) : Upper[i] = c
    THEN LowerCase[IndexOf(Upper, c)]
    ELSE c

\* str.lower()
Lower(s) == [i \in 1..Len(s) |-> LowerChar(s[i])]

RECURSIVE LStrip(_)
LStrip(s) == IF s # <<>> /\ IsSpace(Head(s)) THEN LStrip(Tail(s)) ELSE s

RECURSIVE RStrip(_)
RStrip(s) ==
    IF s # <<>> /\ IsSpace(s[Len(s)]) THEN RStrip(SubSeq(s, 1, Len(s) - 1)) ELSE s

\* str.strip()
Strip(s) == RStrip(LStrip(s))

StartsWith(s, pat) == Len(pat) <= Len(s) /\ SubSeq(s, 1, Len(pat)) = pat

\* str.replace(pat, ""): the non-overlapping occurrences, left to right, removed
RECURSIVE Remove(_, _)
Remove(s, pat) ==
    IF s = <<>> THEN <<>>
    ELSE IF StartsWith(s, pat) THEN Remove(SubSeq(s, Len(pat) + 1, Len(s)), pat)
    ELSE <<Head(s)>> \o Remove(Tail(s), pat)

\* s < t in Python's string order
RECURSIVE StrLt(_, _)
StrLt(s, t) ==
    IF t = <<>> THEN FALSE
    ELSE IF s = <<>> THEN TRUE
    ELSE IF Head(s) # Head(t) THEN Ord(Head(s)) < Ord(Head(t))
    ELSE StrLt(Tail(s), Tail(t))

\* sorted([a, b]) (stable)
Sorted2(a, b) == IF StrLt(b, a) THEN <<b, a>> ELSE <<a, b>>

-----------------------------------------------------------------------------
(* Helpers: normalize_team, alias_lookup, implied_prob *)

ESPORTS == <<"e","s","p","o","r","t","s">>
ESPORT  == <<"e","s","p","o","r","t">>
TEAM    == <<"t","e","a","m">>

normalize_team(name) ==
    LET s == Lower(Strip(name))
    IN  Strip(Remove(Remove(Remove(s, ESPORTS), ESPORT), TEAM))

\* ALIASES is the empty dict: the loop over its items runs zero times and
\* best stays norm
alias_lookup(name) ==
    LET norm == normalize_team(name)
        best == norm
    IN  best

ZeroDivisionError == [kind |-> "ZeroDivisionError"]

\* 1.0 / odds; float division by zero raises
implied_prob(odds) ==
    IF odds.num = 0 THEN ZeroDivisionError ELSE RatDiv(RatInt(1), odds)

-----------------------------------------------------------------------------
(* parse_decimal and the adapter's _extract *)

ValueError == [kind |-> "ValueError"]

\* x is a raised exception, not a value
IsError(x) ==
    /\ "kind" \in DOMAIN x
    /\ x.kind \in {"ZeroDivisionError", "ValueError"}

IsDigit(c) == \E i \in 1..Len(Digits) : Digits[i] = c

Count(s, c) == Cardinality({i \in 1..Len(s) : s[i] = c})

KeepChar(c) == IsDigit(c) \/ c = "." \/ c = ","

NotDot(c) == c # "."

ReplaceChar(s, c, d) == [i \in 1..Len(s) |-> IF s[i] = c THEN d ELSE s[i]]

\* the digits of s read as a decimal integer
RECURSIVE DigitsValue(_)
DigitsValue(s) ==
    IF s = <<>> THEN 0
    ELSE 10 * DigitsValue(SubSeq(s, 1, Len(s) - 1)) + (IndexOf(Digits, s[Len(s)]) - 1)

\* float(keep) for a string of digits, '.' and ',': ValueError unless it is
\* digits with at most one '.', and at least one digit
FloatOf(keep) ==
    IF Count(keep, ",") > 0 \/ Count(keep, ".") > 1
       \/ ~ \E i \in 1..Len(keep) : IsDigit(keep[i])
    THEN ValueError
    ELSE IF Count(keep, ".") = 0 THEN RatInt(DigitsValue(keep))
    ELSE LET dot  == IndexOf(keep, ".")
             frac == SubSeq(keep, dot + 1, Len(keep))
         IN  Rat(DigitsValue(SubSeq(keep, 1, dot - 1) \o frac), Pow10(Len(frac)))

parse_decimal(txt) ==
    LET s     == Strip(txt)
        keep0 == SelectSeq(s, KeepChar)
        keep1 == IF Count(keep0, ",") = 1 /\ Count(keep0, ".") = 0
                 THEN ReplaceChar(keep0, ",", ".") ELSE keep0
        \* more than one '.': all but the first are dropped
        first == IF Count(keep1, ".") > 0 THEN IndexOf(keep1, ".") ELSE 0
        keep  == IF Count(keep1, ".") > 1
                 THEN SubSeq(keep1, 1, first)
                      \o SelectSeq(SubSeq(keep1, first + 1, Len(keep1)), NotDot)
                 ELSE keep1
    IN  FloatOf(keep)

EventOdds(site, t1, t2, o1, o2) ==
    [site |-> site, team1 |-> t1, team2 |-> t2, odds_team1 |-> o1, odds_team2 |-> o2]

\* _extract over the containers of one page; a container is the four texts
\* _first_text found in it (<<>> where it found none)
RECURSIVE Extract(_, _)
Extract(site, containers) ==
    IF containers = <<>> THEN <<>>
    ELSE LET m  == Head(containers)
             o1 == parse_decimal(m.o1_txt)
             o2 == parse_decimal(m.o2_txt)
             skip == \/ m.t1 = <<>> \/ m.t2 = <<>>
                     \/ m.o1_txt = <<>> \/ m.o2_txt = <<>>
                     \/ IsError(o1) \/ IsError(o2)
         IN  (IF skip THEN <<>> ELSE <<EventOdds(site, m.t1, m.t2, o1, o2)>>)
             \o Extract(site, Tail(containers))

-----------------------------------------------------------------------------
(* Matching and arbitrage *)

\* mutant: the key is not sorted
MatchKey_unsorted(ev) == <<alias_lookup(ev.team1), alias_lookup(ev.team2)>>

MatchKey(ev) == Sorted2(alias_lookup(ev.team1), alias_lookup(ev.team2))

EmptyDict == [keys |-> <<>>, at |-> <<>>]

HasKey(d, k) == \E i \in 1..Len(d.keys) : d.keys[i] = k

\* buckets.setdefault(k, []).append(ev)
SetDefaultAppend(d, k, ev) ==
    IF HasKey(d, k)
    THEN [d EXCEPT !.at[IndexOf(d.keys, k)] = Append(@, ev)]
    ELSE [keys |-> Append(d.keys, k), at |-> Append(d.at, <<ev>>)]

RECURSIVE GroupInto(_, _)
GroupInto(buckets, events) ==
    IF events = <<>> THEN buckets
    ELSE GroupInto(SetDefaultAppend(buckets, MatchKey(Head(events)), Head(events)),
                   Tail(events))

group_by_match(events) == GroupInto(EmptyDict, events)

\* max(booklines, key=...): the first element whose key is the largest
BestT1(booklines) ==
    LET i == CHOOSE i \in 1..Len(booklines) :
                 /\ \A j \in 1..Len(booklines) :
                        RatLe(booklines[j].odds_team1, booklines[i].odds_team1)
                 /\ \A j \in 1..(i - 1) :
                        RatLt(booklines[j].odds_team1, booklines[i].odds_team1)
    IN  booklines[i]

\* mutant: side 2 is priced by the quotation chosen for side 1
BestT2_of_best_t1(booklines) == BestT1(booklines)

BestT2(booklines) ==
    LET i == CHOOSE i \in 1..Len(booklines) :
                 /\ \A j \in 1..Len(booklines) :
                        RatLe(booklines[j].odds_team2, booklines[i].odds_team2)
                 /\ \A j \in 1..(i - 1) :
                        RatLt(booklines[j].odds_team2, booklines[i].odds_team2)
    IN  booklines[i]

\* lines 251-266: the body of detect_two_way_arbitrage past its guard
DetectNonEmpty(booklines) ==
    LET best_t1 == BestT1(booklines)
        best_t2 == BestT2(booklines)
        p1 == implied_prob(best_t1.odds_team1)
        p2 == implied_prob(best_t2.odds_team2)
    IN  IF IsError(p1) THEN p1
        ELSE IF IsError(p2) THEN p2
        ELSE LET p_sum == RatAdd(p1, p2)
             IN  IF RatLt(p_sum, RatInt(1))
                 THEN [kind       |-> "arb",
                       team1      |-> best_t1.team1,
                       team2      |-> best_t2.team2,
                       site_team1 |-> best_t1.site,
                       site_team2 |-> best_t2.site,
                       odds_team1 |-> best_t1.odds_team1,
                       odds_team2 |-> best_t2.odds_team2,
                       prob_sum   |-> p_sum,
                       margin     |-> RatSub(RatInt(1), p_sum)]
                 ELSE None

\* mutant: the guard asks for two quotations
detect_needs_two(booklines) ==
    IF Len(booklines) < 2 THEN None ELSE DetectNonEmpty(booklines)

detect_two_way_arbitrage(booklines) ==
    IF booklines = <<>> THEN None ELSE DetectNonEmpty(booklines)

\* mutant: the first stake is weighted by the second price
StakeLocals_swapped(total_stake, odds1, odds2) ==
    LET inv1  == RatDiv(RatInt(1), odds1)
        inv2  == RatDiv(RatInt(1), odds2)
        denom == RatAdd(inv1, inv2)
        s1    == RatMul(total_stake, RatDiv(inv2, denom))
        s2    == RatSub(total_stake, s1)
        leg1  == RatMul(s1, RatSub(odds1, RatInt(1)))
        leg2  == RatMul(s2, RatSub(odds2, RatInt(1)))
    IN  [s1 |-> s1, s2 |-> s2, leg1 |-> leg1, leg2 |-> leg2,
         profit |-> RatMin(leg1, leg2)]

\* the local variables of stake_split (odds1, odds2 > 0)
StakeLocals(total_stake, odds1, odds2) ==
    LET inv1  == RatDiv(RatInt(1), odds1)
        inv2  == RatDiv(RatInt(1), odds2)
        denom == RatAdd(inv1, inv2)
        s1    == RatMul(total_stake, RatDiv(inv1, denom))
        s2    == RatSub(total_stake, s1)
        leg1  == RatMul(s1, RatSub(odds1, RatInt(1)))
        leg2  == RatMul(s2, RatSub(odds2, RatInt(1)))
    IN  [s1 |-> s1, s2 |-> s2, leg1 |-> leg1, leg2 |-> leg2,
         profit |-> RatMin(leg1, leg2)]

stake_split(total_stake, odds1, odds2) ==
    LET l == StakeLocals(total_stake, odds1, odds2)
    IN  <<Round(l.s1, 2), Round(l.s2, 2), Round(l.profit, 2)>>

-----------------------------------------------------------------------------
(* The calls of the pure functions, on inputs drawn from bounded sets *)

RunIdle ==
    /\ all_events = <<>>
    /\ by_match = EmptyDict
    /\ idx = 0
    /\ found = 0
    /\ last = None
    /\ log = <<>>
    /\ log0 = <<>>

RunUnchanged == UNCHANGED <<all_events, by_match, idx, found, last, log, log0>>

Sites == <<"GG.BET", "Thunderpick", "Beonbet">>

SiteOf(i) == Sites[((i - 1) % Len(Sites)) + 1]

\* --- normalize_team -------------------------------------------------------

Tokens == {
    <<"t","e">>,
    <<"a","m">>,
    <<"t","e","a","m">>,
    <<"e","s">>,
    <<"p","o","r","t","s">>,
    <<"e","s","p","o","r","t">>,
    <<"s">>,
    <<" ">>,
    <<"A">>,
    <<"L","i","q","u","i","d">>
}

RECURSIVE Concats(_)
Concats(n) ==
    IF n = 0 THEN {<<>>}
    ELSE LET shorter == Concats(n - 1)
         IN  shorter \cup {t \o u : t \in Tokens, u \in shorter}

RawNames == Concats(MaxTokens)

InitNormalize ==
    /\ pc = "call"
    /\ arg \in RawNames
    /\ ret = <<>>
    /\ RunIdle

CallNormalize ==
    /\ pc = "call"
    /\ ret' = <<normalize_team(arg)>>
    /\ pc' = "once"
    /\ UNCHANGED arg
    /\ RunUnchanged

CallNormalizeAgain ==
    /\ pc = "once"
    /\ ret' = Append(ret, normalize_team(ret[1]))
    /\ pc' = "twice"
    /\ UNCHANGED arg
    /\ RunUnchanged

NextNormalize == CallNormalize \/ CallNormalizeAgain

SpecNormalize == InitNormalize /\ [][NextNormalize]_vars

\* --- stake_split ----------------------------------------------------------

Bankrolls == {RatInt(400), RatInt(100), Rat(40001, 100), Rat(100001, 1000)}

StakeOdds == {Rat(110, 100), Rat(125, 100), Rat(190, 100), Rat(195, 100),
              Rat(200, 100), Rat(205, 100), Rat(210, 100), Rat(300, 100),
              Rat(332, 100)}

InitStake ==
    /\ pc = "call"
    /\ arg \in [total_stake : Bankrolls, odds1 : StakeOdds, odds2 : StakeOdds]
    /\ ret = None
    /\ RunIdle

CallStakeSplit ==
    /\ pc = "call"
    /\ ret' = [value  |-> stake_split(arg.total_stake, arg.odds1, arg.odds2),
               locals |-> StakeLocals(arg.total_stake, arg.odds1, arg.odds2)]
    /\ pc' = "done"
    /\ UNCHANGED arg
    /\ RunUnchanged

NextStake == CallStakeSplit

SpecStake == InitStake /\ [][NextStake]_vars

\* --- detect_two_way_arbitrage ---------------------------------------------

DetectOdds == {RatInt(0), Rat(150, 100), RatInt(2), RatInt(3)}

TeamA == <<"T","e","a","m"," ","A">>
TeamB == <<"T","e","a","m"," ","B">>

\* lists of at most MaxBook quotations of one match, one per site in turn
Booklines ==
    UNION {[1..n -> DetectOdds \X DetectOdds] : n \in 0..MaxBook}

QuotesOf(f) ==
    [i \in 1..Len(f) |-> EventOdds(SiteOf(i), TeamA, TeamB, f[i][1], f[i][2])]

InitDetect ==
    /\ pc = "call"
    /\ \E f \in Booklines : arg = QuotesOf(f)
    /\ ret = None
    /\ RunIdle

CallDetect ==
    /\ pc = "call"
    /\ ret' = detect_two_way_arbitrage(arg)
    /\ pc' = "done"
    /\ UNCHANGED arg
    /\ RunUnchanged

NextDetect == CallDetect

SpecDetect == InitDetect /\ [][NextDetect]_vars

\* --- group_by_match -------------------------------------------------------

GroupNames == {
    <<"T","e","a","m"," ","A">>,
    <<"a"," ">>,
    <<"B"," ","E","s","p","o","r","t","s">>
}

EventLists ==
    UNION {[1..n -> GroupNames \X GroupNames] : n \in 0..MaxEvents}

EventsOf(f) ==
    [i \in 1..Len(f) |-> EventOdds(SiteOf(i), f[i][1], f[i][2], RatInt(2), RatInt(2))]

InitGroup ==
    /\ pc = "call"
    /\ \E f \in EventLists : arg = EventsOf(f)
    /\ ret = None
    /\ RunIdle

CallGroup ==
    /\ pc = "call"
    /\ ret' = group_by_match(arg)
    /\ pc' = "done"
    /\ UNCHANGED arg
    /\ RunUnchanged

NextGroup == CallGroup

SpecGroup == InitGroup /\ [][NextGroup]_vars

-----------------------------------------------------------------------------
(* run(): the polling loop *)

\* what the three sites may serve: each page is the list of its containers
PagesGG == {
    <<
        [t1 |-> <<"T","e","a","m"," ","A">>, t2 |-> <<"T","e","a","m"," ","B">>,
         o1_txt |-> <<"2",".","1","0">>, o2_txt |-> <<"1",".","8","0">>]>>,
    <<
        [t1 |-> <<"T","e","a","m"," ","A">>, t2 |-> <<"T","e","a","m"," ","B">>,
         o1_txt |-> <<"0">>, o2_txt |-> <<"1",".","8","0">>]>>,
    <<
        [t1 |-> <<"T","e","a","m"," ","A">>, t2 |-> <<"T","e","a","m"," ","B">>,
         o1_txt |-> <<"2",".","1","0">>, o2_txt |-> <<"1",".","8","0">>],
        [t1 |-> <<"C">>, t2 |-> <<"D">>,
         o1_txt |-> <<"1",".","5","0">>, o2_txt |-> <<"1",".","5","0">>]>>,
    <<
        [t1 |-> <<"T","e","a","m"," ","A">>, t2 |-> <<"T","e","a","m"," ","B">>,
         o1_txt |-> <<"1",".","0","0">>, o2_txt |-> <<"0",".","9","5">>]>>}

PagesThunderpick == {
    <<
        [t1 |-> <<"A"," ","E","s","p","o","r","t","s">>, t2 |-> <<"B">>,
         o1_txt |-> <<"1",".","9","5">>, o2_txt |-> <<"2",".","0","5">>]>>,
    <<
        [t1 |-> <<"t","e","a","m"," ","a">>, t2 |-> <<"t","e","a","m"," ","b">>,
         o1_txt |-> <<"0",".","0","0">>, o2_txt |-> <<"2",",","0","5">>]>>,
    <<
        [t1 |-> <<"A">>, t2 |-> <<"B">>,
         o1_txt |-> <<"0",".","9","0">>, o2_txt |-> <<"1",".","0","0">>]>>,
    <<
        [t1 |-> <<"B">>, t2 |-> <<"A"," ","E","s","p","o","r","t","s">>,
         o1_txt |-> <<"2",".","0","5">>, o2_txt |-> <<"1",".","9","5">>],
        [t1 |-> <<"A">>, t2 |-> <<"B">>,
         o1_txt |-> <<>>, o2_txt |-> <<"2",".","0","5">>]>>}

PagesBeonbet == {
    <<
        [t1 |-> <<"a">>, t2 |-> <<"b">>,
         o1_txt |-> <<"1",".","9","0">>, o2_txt |-> <<"1",".","9","5">>]>>,
    <<
        [t1 |-> <<"C">>, t2 |-> <<"D">>,
         o1_txt |-> <<"2",".","1","0">>, o2_txt |-> <<"2",".","1","0">>]>>,
    <<
        [t1 |-> <<"a">>, t2 |-> <<"b">>,
         o1_txt |-> <<"1",".","9","0">>, o2_txt |-> <<"1",".","9","5">>],
        [t1 |-> <<"C">>, t2 |-> <<"D">>,
         o1_txt |-> <<"2",".","1","0">>, o2_txt |-> <<"2",".","1","0">>]>>}


Pages(site) ==
    CASE site = "GG.BET"      -> PagesGG
      [] site = "Thunderpick" -> PagesThunderpick
      [] site = "Beonbet"     -> PagesBeonbet

\* PlaywrightHTMLAdapter.fetch: [] when the fetch fails, else _extract(html)
FetchResults(site) == {<<>>} \cup {Extract(site, page) : page \in Pages(site)}

\* what each of the three adapters of presets_to_adapters() may return
FetchedGG == FetchResults(Sites[1])
FetchedThunderpick == FetchResults(Sites[2])
FetchedBeonbet == FetchResults(Sites[3])

\* run(total_stake=400.0)
total_stake == RatInt(400)

\* the row run() hands to log_opportunity (the timestamp is left out)
Row(key, arb, split) ==
    [t1 |-> key[1], t2 |-> key[2],
     site_team1 |-> arb.site_team1, site_team2 |-> arb.site_team2,
     odds1 |-> arb.odds_team1, odds2 |-> arb.odds_team2,
     prob_sum |-> Round(arb.prob_sum, 5), margin |-> Round(arb.margin, 5),
     stake1 |-> split[1], stake2 |-> split[2], profit |-> split[3]]

\* mutant: the file is opened for writing, not for appending
log_opportunity_truncating(rows, row) == <<row>>

\* open(path, "a") ... writer.writerow(row)
log_opportunity(rows, row) == Append(rows, row)

Init ==
    /\ pc = "Fetching"
    /\ arg = None
    /\ ret = None
    /\ RunIdle

\* lines 411-419: every adapter is fetched, in order, and the cycle's
\* quotations are grouped
Fetch ==
    /\ pc = "Fetching"
    /\ Len(log) < MaxLog
    /\ \E r1 \in FetchedGG, r2 \in FetchedThunderpick, r3 \in FetchedBeonbet :
          /\ all_events' = r1 \o r2 \o r3
          /\ by_match' = group_by_match(r1 \o r2 \o r3)
    /\ found' = 0
    /\ idx' = 0
    /\ log0' = log
    /\ pc' = "Settling"
    /\ UNCHANGED <<arg, ret, last, log>>

\* lines 420-451: one iteration of the loop over by_match.items()
ProcessBucket ==
    /\ pc = "Settling"
    /\ idx < Len(by_match.keys)
    /\ LET key       == by_match.keys[idx + 1]
           booklines == by_match.at[idx + 1]
           arb       == detect_two_way_arbitrage(booklines)
       IN  IF Len(booklines) < 2
           THEN /\ last' = [key |-> key, booklines |-> booklines, arb |-> Skipped]
                /\ idx' = idx + 1
                /\ UNCHANGED <<pc, found, log>>
           ELSE IF IsError(arb)
           THEN \* the exception leaves run()
                /\ last' = [key |-> key, booklines |-> booklines, arb |-> arb]
                /\ pc' = "Crashed"
                /\ UNCHANGED <<idx, found, log>>
           ELSE IF arb = None
           THEN /\ last' = [key |-> key, booklines |-> booklines, arb |-> arb]
                /\ idx' = idx + 1
                /\ UNCHANGED <<pc, found, log>>
           ELSE LET split == stake_split(total_stake, arb.odds_team1, arb.odds_team2)
                IN  /\ last' = [key |-> key, booklines |-> booklines, arb |-> arb,
                                split |-> split]
                    /\ found' = found + 1
                    /\ log' = log_opportunity(log, Row(key, arb, split))
                    /\ idx' = idx + 1
                    /\ UNCHANGED pc
    /\ UNCHANGED <<arg, ret, all_events, by_match, log0>>

\* lines 452-457: the cycle ends, the loop sleeps and starts over
Sleep ==
    /\ pc = "Settling"
    /\ idx = Len(by_match.keys)
    /\ pc' = "Fetching"
    /\ UNCHANGED <<arg, ret, all_events, by_match, idx, found, last, log, log0>>

Next == Fetch \/ ProcessBucket \/ Sleep

Spec == Init /\ [][Next]_vars

-----------------------------------------------------------------------------
(* Properties of the pure functions *)

One == RatInt(1)

\* 1/x + 1/y < 1 for positive rationals x and y, by cross-multiplication
InverseSumBelowOne(x, y) ==
    x.den * y.num + y.den * x.num < x.num * y.num

\* the largest element of a non-empty set of rationals
MaxOf(S) == CHOOSE m \in S : \A x \in S : RatLe(x, m)

AllOddsAbove(booklines, bound) ==
    \A i \in 1..Len(booklines) :
        /\ RatLt(bound, booklines[i].odds_team1)
        /\ RatLt(bound, booklines[i].odds_team2)

\* C1 (as claimed): the two rounded stakes that stake_split returns add up
\* to the bankroll exactly.
C1_StakesSumToBankroll ==
    pc = "done" => RatAdd(ret.value[1], ret.value[2]) = arg.total_stake

\* C8 (as claimed): when 1/odds1 + 1/odds2 < 1, the two unrounded per-leg
\* values stake1*(odds1-1) and stake2*(odds2-1), whose minimum is the
\* reported profit, are equal.
C8_LegProfitsEqual ==
    (pc = "done" /\ InverseSumBelowOne(arg.odds1, arg.odds2))
        => ret.locals.leg1 = ret.locals.leg2

\* C4 (as claimed): normalising a normalised name changes nothing.
C4_NormalizeIdempotent ==
    pc = "twice" => ret[2] = ret[1]

\* C2 (as claimed): detect_two_way_arbitrage returns None for every list of
\* zero or one quotation, here already for every such list with positive odds.
C2_NoneForSmallBuckets ==
    (pc = "done" /\ Len(arg) <= 1 /\ AllOddsAbove(arg, RatInt(0)))
        => ret = None

\* C2 (amended): detect_two_way_arbitrage returns None for the empty list;
\* for a single quotation with positive odds it applies the same rule as for
\* any list: it returns an opportunity, both legs taken from that quotation,
\* exactly when 1/odds_team1 + 1/odds_team2 < 1, and None otherwise.
C2_SingleQuotationJudgedAlone ==
    pc = "done" =>
        /\ Len(arg) = 0 => ret = None
        /\ (Len(arg) = 1 /\ AllOddsAbove(arg, RatInt(0))) =>
              IF InverseSumBelowOne(arg[1].odds_team1, arg[1].odds_team2)
              THEN /\ ret.kind = "arb"
                   /\ ret.site_team1 = arg[1].site
                   /\ ret.site_team2 = arg[1].site
                   /\ ret.odds_team1 = arg[1].odds_team1
                   /\ ret.odds_team2 = arg[1].odds_team2
              ELSE ret = None

C2_Witness ==
    /\ pc = "done"
    /\ Len(arg) = 1
    /\ ret.kind = "arb"

\* C3: for two or more quotations with all odds > 1, an opportunity is
\* returned exactly when 1/M1 + 1/M2 < 1, M1 and M2 being the largest
\* odds_team1 and, independently, the largest odds_team2 of the list; at a sum
\* of 1 or more the result is None; a returned opportunity carries odds M1 and
\* M2, prob_sum = 1/M1 + 1/M2 and margin = 1 - prob_sum.
C3_OpportunityIffBestOddsBelowOne ==
    (pc = "done" /\ Len(arg) >= 2 /\ AllOddsAbove(arg, One)) =>
        LET M1 == MaxOf({arg[i].odds_team1 : i \in 1..Len(arg)})
            M2 == MaxOf({arg[i].odds_team2 : i \in 1..Len(arg)})
        IN  IF InverseSumBelowOne(M1, M2)
            THEN /\ ret.kind = "arb"
                 /\ ret.odds_team1 = M1
                 /\ ret.odds_team2 = M2
                 /\ ret.prob_sum = Rat(M1.den * M2.num + M2.den * M1.num,
                                       M1.num * M2.num)
                 /\ ret.margin = RatSub(One, ret.prob_sum)
            ELSE ret = None

C3_Witness ==
    /\ pc = "done"
    /\ Len(arg) >= 2
    /\ AllOddsAbove(arg, One)
    /\ ret.kind = "arb"
    /\ ret.site_team1 # ret.site_team2

\* the buckets (by position in the dict) that hold quotation e
BucketsWith(d, e) ==
    {k \in 1..Len(d.keys) : \E j \in 1..Len(d.at[k]) : d.at[k][j] = e}

RECURSIVE SumLen(_)
SumLen(ss) == IF ss = <<>> THEN 0 ELSE Len(Head(ss)) + SumLen(Tail(ss))

\* C5: every quotation given to group_by_match lies in exactly one bucket,
\* and two quotations lie in the same bucket exactly when their participant
\* pairs, passed through alias_lookup, are the same unordered pair; so (A, B)
\* and (B, A) share a bucket.
C5_SameBucketIffSameUnorderedPair ==
    pc = "done" =>
        LET in == [i \in 1..Len(arg) |-> BucketsWith(ret, arg[i])]
            pair == [i \in 1..Len(arg) |->
                        {alias_lookup(arg[i].team1), alias_lookup(arg[i].team2)}]
        IN  /\ \A i \in 1..Len(arg) : Cardinality(in[i]) = 1
            /\ \A i, j \in 1..Len(arg) : (in[i] = in[j]) <=> (pair[i] = pair[j])
            /\ SumLen(ret.at) = Len(arg)
            /\ \A k, l \in 1..Len(ret.keys) : ret.keys[k] = ret.keys[l] => k = l

C5_Witness ==
    /\ pc = "done"
    /\ Len(ret.keys) >= 2
    /\ \E i, j \in 1..Len(arg) :
          /\ alias_lookup(arg[i].team1) = alias_lookup(arg[j].team2)
          /\ alias_lookup(arg[i].team2) = alias_lookup(arg[j].team1)
          /\ alias_lookup(arg[i].team1) # alias_lookup(arg[i].team2)
          /\ arg[i].team1 # arg[j].team2
          /\ BucketsWith(ret, arg[i]) = BucketsWith(ret, arg[j])

-----------------------------------------------------------------------------
(* Properties of run() *)

IsPrefix(s, t) == Len(s) <= Len(t) /\ SubSeq(t, 1, Len(s)) = s

Range(f) == {f[i] : i \in DOMAIN f}

\* the last bucket run() handed to detect_two_way_arbitrage, if any
Detected == "booklines" \in DOMAIN last /\ last.arb # Skipped

BestOdds1(booklines) == MaxOf({booklines[i].odds_team1 : i \in 1..Len(booklines)})

BestOdds2(booklines) == MaxOf({booklines[i].odds_team2 : i \in 1..Len(booklines)})

\* C6 (as claimed): whatever the sources return, run() never ends up crashed.
C6_RunNeverCrashes == pc # "Crashed"

\* C7 (as claimed): when the best odds of either side of a bucket are <= 1,
\* detect_two_way_arbitrage returns None for it without raising, and run()
\* goes on without reporting anything for it.
C7_DegenerateLegSkippedSilently ==
    (/\ Detected
     /\ \/ RatLe(BestOdds1(last.booklines), One)
        \/ RatLe(BestOdds2(last.booklines), One))
        => (last.arb = None /\ pc # "Crashed")

\* the three quotations of the end-to-end example, in fetch order
EndToEnd == <<
    EventOdds("GG.BET", TeamA, TeamB, Rat(210, 100), Rat(180, 100)),
    EventOdds("Thunderpick", <<"A"," ","E","s","p","o","r","t","s">>, <<"B">>,
              Rat(195, 100), Rat(205, 100)),
    EventOdds("Beonbet", <<"a">>, <<"b">>, Rat(190, 100), Rat(195, 100))>>

\* run() has just processed the bucket of the end-to-end example
EndToEndProcessed ==
    /\ pc = "Settling"
    /\ all_events = EndToEnd
    /\ idx = 1

\* what the example selects: one bucket of three, GG.BET at 2.10 for side 1,
\* Thunderpick at 2.05 for side 2
EndToEndLegs ==
    /\ Len(by_match.keys) = 1
    /\ by_match.at[1] = EndToEnd
    /\ last.arb.kind = "arb"
    /\ last.arb.site_team1 = "GG.BET"
    /\ last.arb.odds_team1 = Rat(210, 100)
    /\ last.arb.site_team2 = "Thunderpick"
    /\ last.arb.odds_team2 = Rat(205, 100)

\* the margin as the console line prints it: a percentage with two decimals
MarginPercent(arb) == Round(RatMul(arb.margin, RatInt(100)), 2)

\* C9 (as claimed): the example gives prob_sum 0.9517, margin 4.83 %, stakes
\* 202.96 / 197.04 and profit 26.22.
C9_EndToEndAsClaimed ==
    EndToEndProcessed =>
        /\ EndToEndLegs
        /\ Round(last.arb.prob_sum, 4) = Rat(9517, 10000)
        /\ MarginPercent(last.arb) = Rat(483, 100)
        /\ last.split = <<Rat(20296, 100), Rat(19704, 100), Rat(2622, 100)>>

\* C9 (amended): on the three quotations 2.10/1.80, 1.95/2.05, 1.90/1.95 of
\* one event, grouping makes one bucket of all three, detect selects GG.BET
\* at 2.10 and Thunderpick at 2.05, prob_sum is 0.9640 and the margin 3.60 %
\* (to the digits shown), and stake_split(400, 2.10, 2.05) returns stakes
\* 197.59 / 202.41 and profit 212.53, which is the row that is logged.
C9_EndToEnd ==
    EndToEndProcessed =>
        /\ EndToEndLegs
        /\ Round(last.arb.prob_sum, 4) = Rat(9640, 10000)
        /\ MarginPercent(last.arb) = Rat(360, 100)
        /\ last.split = <<Rat(19759, 100), Rat(20241, 100), Rat(21253, 100)>>
        /\ Len(log) = Len(log0) + 1
        /\ log[Len(log)].stake1 = Rat(19759, 100)
        /\ log[Len(log)].stake2 = Rat(20241, 100)
        /\ log[Len(log)].profit = Rat(21253, 100)

C9_Witness == EndToEndProcessed /\ Len(log) > 0

\* detect reports an opportunity on a bucket that run() does not pass over
Reported(booklines) ==
    /\ Len(booklines) >= 2
    /\ detect_two_way_arbitrage(booklines).kind = "arb"

C10_State ==
    pc = "Settling" =>
        /\ \A k \in 1..Len(by_match.at) :
              Range(by_match.at[k]) \subseteq Range(all_events)
        /\ IsPrefix(log0, log)
        /\ Len(log) - Len(log0)
              = Cardinality({k \in 1..idx : Reported(by_match.at[k])})

C10_Step ==
    /\ IsPrefix(log, log')
    /\ IF pc = "Settling" /\ idx' = idx + 1 /\ Reported(by_match.at[idx + 1])
       THEN /\ Len(log') = Len(log) + 1
            /\ log'[Len(log')].t1 = by_match.keys[idx + 1][1]
            /\ log'[Len(log')].t2 = by_match.keys[idx + 1][2]
       ELSE log' = log

\* C10: in every cycle one row is appended for each bucket of two or more
\* quotations on which detect reports an opportunity and none for any other
\* bucket; the buckets hold only quotations fetched in the current cycle; the
\* log only grows and its earlier rows never change.
C10_OneRowPerReportedBucket == [] C10_State /\ [][C10_Step]_vars

\* a cycle that began with rows in the log has appended one, and has passed
\* over a bucket of one quotation that prices an opportunity by itself
C10_Witness ==
    /\ pc = "Settling"
    /\ idx = Len(by_match.keys)
    /\ Len(log0) >= 1
    /\ Len(log) > Len(log0)
    /\ \E k \in 1..Len(by_match.at) :
          /\ Len(by_match.at[k]) = 1
          /\ detect_two_way_arbitrage(by_match.at[k]).kind = "arb"

====
